---- MODULE Spec2Model ----
(***************************************************************************)
(* A model of the story parser of src/story_parser.py: StoryParser and its *)
(* methods parse_file, _split_into_epics, _parse_epic_section,             *)
(* _parse_story and _generate_title; of create_epics_and_stories, with     *)
(* create_epic and create_story, of JiraClient (src/jira_client.py); and   *)
(* of the create command of src/jira_agent.py, which runs the one and      *)
(* then the other.                                                         *)
(*                                                                         *)
(* Spec is one call of parse_file, SpecRepeat calls of parse_file one      *)
(* after the other, SpecClient one call of create_epics_and_stories, and   *)
(* SpecCreate one run of the create command.                               *)
(*                                                                         *)
(* Text is a sequence of one-character strings.  An Optional value is a    *)
(* sequence of length 0 (None) or 1 (the value).  A computation that can   *)
(* raise yields a record [exc, val]: exc is "" when it returned val and    *)
(* the exception's class name when it raised.                              *)
(***************************************************************************)
EXTENDS Integers, Sequences, FiniteSets

VARIABLES
    file_state,       \* what open(file_path) finds: "ok", "missing", "unreadable"
    file_text,        \* the characters of the file
    pc,               \* position in parse_file
    content,          \* parse_file: content
    lines,            \* _split_into_epics: lines
    idx,              \* _split_into_epics: position of the for loop in lines
    current_section,  \* _split_into_epics: current_section
    sections,         \* _split_into_epics: sections (parse_file: epic_sections)
    sec_idx,          \* parse_file: position of the for loop in epic_sections
    epics,            \* parse_file: epics
    result,           \* the value returned by parse_file (Optional)
    error,            \* the class of the exception parse_file raised, or ""
    seen,             \* the calls of parse_file that ended: their files and outcomes
    calls,            \* the number of calls of parse_file made so far
    instance,         \* the StoryParser object the running call is made on
    cmd_pc,           \* position in the create command of jira_agent.py
    config_valid,     \* what loader.validate_config() returns
    dry_run,          \* the --dry-run flag
    exit_code,        \* the argument of sys.exit, once called (Optional)
    jira,             \* JiraClient: self.jira is set (connected)
    connects,         \* the number of calls of JiraClient.connect
    client_pc,        \* position in create_epics_and_stories
    epics_arg,        \* create_epics_and_stories: epics
    epic_i,           \* create_epics_and_stories: position of the loop over epics
    story_j,          \* create_epics_and_stories: position of the loop over epic.stories
    epic_key,         \* create_epics_and_stories: epic_key (Optional)
    story_keys,       \* create_epics_and_stories: story_keys
    results,          \* create_epics_and_stories: results, in insertion order
    issues,           \* the issues the JIRA server created, in order
    links             \* the epic links the JIRA server made: <<epic key, story key>>

parserVars == <<file_state, file_text, pc, content, lines, idx, current_section,
                sections, sec_idx, epics, result, error>>

repeatVars == <<seen, calls, instance>>

cmdVars == <<cmd_pc, config_valid, dry_run, exit_code>>

clientVars == <<jira, connects, client_pc, epics_arg, epic_i, story_j, epic_key,
                story_keys, results, issues, links>>

\* what the steps of parse_file leave alone
notParser == <<repeatVars, cmdVars, clientVars>>

vars == <<parserVars, repeatVars, cmdVars, clientVars>>

----------------------------------------------------------------------------
(* Bounds of the model *)

MaxLines == 4
MaxChunks == 3
FillerLen == 30

\* the calls of parse_file made one after the other
MaxCalls == 3

\* the lines of the file of the first of these calls
MaxRepeatLines == 2

\* the lines of the file given to the create command
MaxCreateLines == 4

\* the epics given to create_epics_and_stories, and the stories of each
MaxEpics == 2
MaxStories == 2

----------------------------------------------------------------------------
(* Characters *)

LowerAlpha ==
    <<"a","b","c","d","e","f","g","h","i","j","k","l","m",
      "n","o","p","q","r","s","t","u","v","w","x","y","z">>

UpperAlpha ==
    <<"A","B","C","D","E","F","G","H","I","J","K","L","M",
      "N","O","P","Q","R","S","T","U","V","W","X","Y","Z">>

DigitChars == <<"0","1","2","3","4","5","6","7","8","9">>

Range(s) == {s[i] : i \in DOMAIN s}

Whitespace == {" ", "\t", "\n", "\r", "\f"}

WordChars == Range(LowerAlpha) \cup Range(UpperAlpha) \cup Range(DigitChars) \cup {"_"}

Digits == Range(DigitChars)

ToUpper(c) ==
    IF \E i \in 1..26 : LowerAlpha[i] = c
    THEN UpperAlpha[CHOOSE i \in 1..26 : LowerAlpha[i] = c]
    ELSE c

ToLower(c) ==
    IF \E i \in 1..26 : UpperAlpha[i] = c
    THEN LowerAlpha[CHOOSE i \in 1..26 : UpperAlpha[i] = c]
    ELSE c

DigitVal(c) == (CHOOSE i \in 1..10 : DigitChars[i] = c) - 1

----------------------------------------------------------------------------
(* The str methods the parser uses *)

SliceFrom(s, k) == SubSeq(s, k, Len(s))

\* s.strip()
Strip(s) ==
    LET n == Len(s)
    IN  IF \A i \in 1..n : s[i] \in Whitespace
        THEN <<>>
        ELSE LET a == CHOOSE i \in 1..n :
                          /\ s[i] \notin Whitespace
                          /\ \A j \in 1..(i-1) : s[j] \in Whitespace
                 k == CHOOSE i \in 0..(n-1) :
                          /\ s[n-i] \notin Whitespace
                          /\ \A j \in 0..(i-1) : s[n-j] \in Whitespace
             IN  SubSeq(s, a, n - k)

\* s.startswith(p)
StartsWith(s, p) == Len(s) >= Len(p) /\ SubSeq(s, 1, Len(p)) = p

\* the position of the first occurrence of p in s at or after k, 0 if none
FindFrom(s, p, k) ==
    LET last == Len(s) - Len(p) + 1
        Occ(i) == SubSeq(s, i, i + Len(p) - 1) = p
    IN  IF \E i \in k..last : Occ(i)
        THEN CHOOSE i \in k..last : Occ(i) /\ \A j \in k..(i-1) : ~Occ(j)
        ELSE 0

RECURSIVE SplitFrom(_, _, _)
SplitFrom(s, sep, k) ==
    LET p == FindFrom(s, sep, k)
    IN  IF p = 0
        THEN <<SliceFrom(s, k)>>
        ELSE <<SubSeq(s, k, p - 1)>> \o SplitFrom(s, sep, p + Len(sep))

\* s.split(sep)
Split(s, sep) == SplitFrom(s, sep, 1)

RECURSIVE Join(_, _)
\* sep.join(parts)
Join(parts, sep) ==
    IF parts = <<>> THEN <<>>
    ELSE IF Len(parts) = 1 THEN parts[1]
    ELSE parts[1] \o sep \o Join(Tail(parts), sep)

RECURSIVE RemoveAllFrom(_, _, _)
RemoveAllFrom(s, old, k) ==
    LET p == FindFrom(s, old, k)
    IN  IF p = 0
        THEN SliceFrom(s, k)
        ELSE SubSeq(s, k, p - 1) \o RemoveAllFrom(s, old, p + Len(old))

\* s.replace(old, '')
Replace(s, old) == RemoveAllFrom(s, old, 1)

----------------------------------------------------------------------------
(* The regular expressions of StoryParser *)

\* the patterns '\[(\w+)\]' and '\{(\d+)\}': an opening character, one or
\* more characters of a class, a closing character
priority_pattern == [open |-> "[", class |-> WordChars, close |-> "]"]

story_points_pattern == [open |-> "{", class |-> Digits, close |-> "}"]

\* the first position after i that does not hold a character of the class
RunEnd(s, i, class) ==
    CHOOSE r \in (i+1)..(Len(s)+1) :
        /\ r = Len(s) + 1 \/ s[r] \notin class
        /\ \A j \in (i+1)..(r-1) : s[j] \in class

\* whether the pattern matches s at position i
MatchesAt(s, i, pat) ==
    /\ s[i] = pat.open
    /\ LET r == RunEnd(s, i, pat.class)
       IN  r > i + 1 /\ r <= Len(s) /\ s[r] = pat.close

\* re.search(pat, s) restricted to starts at or after k: the start of the
\* leftmost match, 0 if there is none
SearchFrom(s, pat, k) ==
    IF \E i \in k..Len(s) : MatchesAt(s, i, pat)
    THEN CHOOSE i \in k..Len(s) :
             MatchesAt(s, i, pat) /\ \A j \in k..(i-1) : ~MatchesAt(s, j, pat)
    ELSE 0

\* the start of the rightmost match instead of the leftmost, 0 if there is none
ReSearchLast(s, pat) ==
    IF \E i \in 1..Len(s) : MatchesAt(s, i, pat)
    THEN CHOOSE i \in 1..Len(s) :
             MatchesAt(s, i, pat) /\ \A j \in (i+1)..Len(s) : ~MatchesAt(s, j, pat)
    ELSE 0

\* re.search(pat, s)
ReSearch(s, pat) == SearchFrom(s, pat, 1)

\* match.group(1) of the match that starts at i
Group1(s, i, pat) == SubSeq(s, i + 1, RunEnd(s, i, pat.class) - 1)

RECURSIVE SubFrom(_, _, _)
SubFrom(s, pat, k) ==
    LET i == SearchFrom(s, pat, k)
    IN  IF i = 0
        THEN SliceFrom(s, k)
        ELSE SubSeq(s, k, i - 1) \o SubFrom(s, pat, RunEnd(s, i, pat.class) + 1)

\* ReSub with count=1: only the leftmost match is deleted
ReSubFirst(s, pat) ==
    LET i == ReSearch(s, pat)
    IN  IF i = 0 THEN s
        ELSE SubSeq(s, 1, i - 1) \o SliceFrom(s, RunEnd(s, i, pat.class) + 1)

\* re.sub(pat, '', s): every non-overlapping match is deleted, in one pass
ReSub(s, pat) == SubFrom(s, pat, 1)

\* 'I want to ' of the pattern r'I want to ([^,]+)', in lower case
WantPhrase == <<"i"," ","w","a","n","t"," ","t","o"," ">>

\* whether r'I want to ([^,]+)' with re.IGNORECASE matches s at position i
WantMatchesAt(s, i) ==
    /\ i + Len(WantPhrase) <= Len(s)
    /\ \A k \in 1..Len(WantPhrase) : ToLower(s[i + k - 1]) = WantPhrase[k]
    /\ s[i + Len(WantPhrase)] /= ","

\* the start of the leftmost match of the pattern, 0 if there is none
WantSearch(s) ==
    IF \E i \in 1..Len(s) : WantMatchesAt(s, i)
    THEN CHOOSE i \in 1..Len(s) :
             WantMatchesAt(s, i) /\ \A j \in 1..(i-1) : ~WantMatchesAt(s, j)
    ELSE 0

\* group(1) of the match that starts at i: the run of non-comma characters
WantGroup1(s, i) ==
    LET a == i + Len(WantPhrase)
        r == CHOOSE e \in (a+1)..(Len(s)+1) :
                 /\ e = Len(s) + 1 \/ s[e] = ","
                 /\ \A j \in (a+1)..(e-1) : s[j] /= ","
    IN  SubSeq(s, a, r - 1)

----------------------------------------------------------------------------
(* int() *)

\* the longest digit string int() converts (sys.int_info.default_max_str_digits)
IntMaxStrDigits == 4300

RECURSIVE DecimalValue(_)
DecimalValue(ds) ==
    IF ds = <<>> THEN 0
    ELSE 10 * DecimalValue(SubSeq(ds, 1, Len(ds) - 1)) + DigitVal(ds[Len(ds)])

\* int(ds) for a non-empty string of digits
ParseInt(ds) ==
    IF Len(ds) > IntMaxStrDigits
    THEN [exc |-> "ValueError", val |-> 0]
    ELSE [exc |-> "", val |-> DecimalValue(ds)]

----------------------------------------------------------------------------
(* StoryParser._generate_title *)

TitleLimit == 60
TitleKeep == 57

Ellipsis == <<".", ".", ".">>

\* Truncate that keeps as many characters as the limit allows
TruncateAtLimit(title) ==
    IF Len(title) > TitleLimit
    THEN SubSeq(title, 1, TitleLimit) \o Ellipsis
    ELSE title

\* a Truncate that leaves every title whole
TruncateNever(title) == title

\* title[:57] + "..." when len(title) > 60
Truncate(title) ==
    IF Len(title) > TitleLimit
    THEN SubSeq(title, 1, TitleKeep) \o Ellipsis
    ELSE title

\* action[0].upper() + action[1:] if action else description
Capitalize(action, description) ==
    IF action /= <<>>
    THEN <<ToUpper(action[1])>> \o Tail(action)
    ELSE description

\* _generate_title whose fallback is the first 60 characters, as its
\* comment says
GenerateTitleFirst60(description) ==
    LET m == WantSearch(description)
    IN  IF m /= 0
        THEN Truncate(Capitalize(Strip(WantGroup1(description, m)), description))
        ELSE IF Len(description) > TitleLimit
             THEN SubSeq(description, 1, TitleLimit)
             ELSE description

_generate_title(description) ==
    LET m == WantSearch(description)
    IN  IF m /= 0
        THEN Truncate(Capitalize(Strip(WantGroup1(description, m)), description))
        ELSE Truncate(description)

----------------------------------------------------------------------------
(* StoryParser._parse_story *)

\* the content after a pattern was extracted from it
Extracted(s, pat) == Strip(ReSub(s, pat))

\* the UserStory, after the story points were extracted
StoryWith(description, priority, points) ==
    IF points.exc /= ""
    THEN [exc |-> points.exc, val |-> <<>>]
    ELSE [exc |-> "",
          val |-> <<[title |-> _generate_title(description),
                     description |-> description,
                     priority |-> priority,
                     story_points |-> points.val]>>]

\* the story points, where sm is the start of the match in c, 0 if none
PointsAt(c, sm) ==
    IF sm = 0 THEN [exc |-> "", val |-> <<>>]
    ELSE LET n == ParseInt(Group1(c, sm, story_points_pattern))
         IN  [exc |-> n.exc, val |-> <<n.val>>]

\* the text left by an extraction, where m is the start of the match of
\* the pattern in c, 0 if none
Remaining(c, pat, m) == IF m = 0 THEN c ELSE Extracted(c, pat)

\* the extraction of the story points from c and what follows it
WithPoints(c, priority, sm) ==
    StoryWith(Remaining(c, story_points_pattern, sm), priority, PointsAt(c, sm))

\* the extraction of the story points from the content left by the
\* extraction of the priority
AfterPriorityExtraction(c, priority) ==
    WithPoints(c, priority, ReSearch(c, story_points_pattern))

\* the priority, where pm is the start of the match in c, 0 if none
PriorityAt(c, pm) == IF pm = 0 THEN <<>> ELSE <<Group1(c, pm, priority_pattern)>>

\* the extraction of the priority from c and what follows it
WithPriority(c, pm) ==
    AfterPriorityExtraction(Remaining(c, priority_pattern, pm), PriorityAt(c, pm))

\* _parse_story from its test of the content on
StoryOfContent(c) ==
    IF c = <<>>
    THEN [exc |-> "", val |-> <<>>]
    ELSE WithPriority(c, ReSearch(c, priority_pattern))

_parse_story(line) == StoryOfContent(Strip(Tail(line)))

----------------------------------------------------------------------------
(* StoryParser._parse_epic_section *)

EpicMarker == <<"E","P","I","C",":">>

ItemMarker == <<"-">>

CommentMarker == <<"#">>

Newline == <<"\n">>

\* epic_line.startswith('EPIC:')
IsHeader(line) == StartsWith(line, EpicMarker)

\* epic_line.replace('EPIC:', '').strip()
EpicTitle(epic_line) == Strip(Replace(epic_line, EpicMarker))

\* StoryOfLine without the test of the item marker
StoryOfAnyLine(line) == _parse_story(line)

\* the body of the loop over lines[1:] for a line, trimmed
StoryOfLine(line) ==
    IF StartsWith(line, ItemMarker)
    THEN _parse_story(line)
    ELSE [exc |-> "", val |-> <<>>]

RECURSIVE ParseStories(_, _, _)
RECURSIVE AfterStory(_, _, _, _)
\* the loop over lines[1:], from the k-th line on, stories being those
\* collected so far; a raising _parse_story ends the loop
ParseStories(ls, k, stories) ==
    IF k > Len(ls)
    THEN [exc |-> "", val |-> stories]
    ELSE AfterStory(ls, k, stories, StoryOfLine(Strip(ls[k])))

\* the loop after the k-th line gave story
AfterStory(ls, k, stories, story) ==
    IF story.exc /= ""
    THEN [exc |-> story.exc, val |-> <<>>]
    ELSE ParseStories(ls, k + 1, stories \o story.val)

\* SectionHasHeader without the test of the first line
SectionNotEmpty(ls) == ls /= <<>>

\* neither of the two early returns is taken: lines is not empty and its
\* first line starts with the marker
SectionHasHeader(ls) == ls /= <<>> /\ IsHeader(ls[1])

\* Epic(title=epic_title, stories=stories), unless the loop raised
EpicWith(epic_title, parsed) ==
    IF parsed.exc /= ""
    THEN [exc |-> parsed.exc, val |-> <<>>]
    ELSE [exc |-> "", val |-> <<[title |-> epic_title, stories |-> parsed.val]>>]

\* _parse_epic_section from its tests of lines on
EpicOfLines(ls) ==
    IF ~SectionHasHeader(ls)
    THEN [exc |-> "", val |-> <<>>]
    ELSE EpicWith(EpicTitle(ls[1]), ParseStories(ls, 2, <<>>))

_parse_epic_section(section) == EpicOfLines(Split(Strip(section), Newline))

\* KeepEpic without the test of epic.stories
KeepEpicWithoutStories(epic) == epic /= <<>>

\* epic and epic.stories
KeepEpic(epic) == epic /= <<>> /\ epic[1].stories /= <<>>

----------------------------------------------------------------------------
(* The input files *)

Chars(n, c) == [i \in 1..n |-> c]

RECURSIVE Concat(_)
Concat(parts) == IF parts = <<>> THEN <<>> ELSE parts[1] \o Concat(Tail(parts))

SeqsUpTo(S, n) == UNION {[1..k -> S] : k \in 0..n}

\* the lines of documents that exercise segmentation and epic extraction
StructLines ==
    { EpicMarker \o <<" ","A">>,
      EpicMarker \o <<" ","B">>,
      <<"-"," ","s">>,
      <<" ","-"," ","t"," ">>,
      <<"-">>,
      <<"n","o","t","e">>,
      <<"#"," ","c">>,
      <<>> }

\* the pieces of story lines that exercise field extraction and titles
StoryChunks ==
    { <<"I"," ","w","a","n","t"," ","t","o"," ">>,
      <<"i"," ","W","A","N","T"," ","T","O"," ">>,
      <<"g","o">>,
      <<",">>,
      <<" ">>,
      <<"[","H","i","g","h","]">>,
      <<"[","L","o","w","]">>,
      <<"{","5","}">>,
      <<"{","1","3","}">>,
      <<"[","a"," ","b","]">>,
      Chars(FillerLen, "x"),
      Chars(FillerLen + 1, "y") }

\* the pieces of header lines
HeaderChunks == { <<" ">>, <<"A">>, EpicMarker, <<"b"," ","c">> }

StructDocs == {Join(ls, Newline) : ls \in SeqsUpTo(StructLines, MaxLines)}

StoryDocs ==
    {Join(<<EpicMarker \o <<" ","T">>, <<"-"," ">> \o Concat(cs)>>, Newline) :
        cs \in SeqsUpTo(StoryChunks, MaxChunks)}

HeaderDocs ==
    {Join(<<EpicMarker \o Concat(cs), <<"-"," ","s">>>>, Newline) :
        cs \in SeqsUpTo(HeaderChunks, MaxChunks)}

\* a story whose points token has more digits than int() converts
LongPointsDoc ==
    Join(<<EpicMarker \o <<" ","T">>,
           <<"-"," ","s"," ","{">> \o Chars(IntMaxStrDigits + 1, "1") \o <<"}">>>>,
         Newline)

\* stories whose 'I want to' is followed by a blank action
BlankActionDocs ==
    {Join(<<EpicMarker \o <<" ","T">>,
            <<"-"," ","I"," ","w","a","n","t"," ","t","o"," "," ",",">> \o Concat(cs)>>,
          Newline) :
        cs \in SeqsUpTo({Chars(FillerLen, "x"), Chars(FillerLen + 1, "y")}, 2)}

\* a story with a priority and a points token of that many digits
LongPointsPriorityDoc ==
    Join(<<EpicMarker \o <<" ","T">>,
           <<"-"," ","s"," ","[","H","i","g","h","]"," ","{">>
               \o Chars(IntMaxStrDigits + 1, "1") \o <<"}">>>>,
         Newline)

\* a story whose priority token stands between a brace and its digits
SplitPointsDoc ==
    Join(<<EpicMarker \o <<" ","T">>,
           <<"-"," ","{","1","[","A","]","2","}"," ","{","3","}">>>>,
         Newline)

Documents ==
    StructDocs \cup StoryDocs \cup HeaderDocs \cup BlankActionDocs
        \cup {LongPointsDoc, LongPointsPriorityDoc, SplitPointsDoc}

----------------------------------------------------------------------------
(* StoryParser.parse_file *)

\* the first call of parse_file, on the first StoryParser
NotRepeated == seen = <<>> /\ calls = 1 /\ instance = 1

\* the create command is not running
NoCommand ==
    /\ cmd_pc = "none"
    /\ config_valid = TRUE
    /\ dry_run = FALSE
    /\ exit_code = <<>>

\* no JiraClient is in use
NoClient ==
    /\ jira = FALSE
    /\ connects = 0
    /\ client_pc = "none"
    /\ epics_arg = <<>>
    /\ epic_i = 1
    /\ story_j = 1
    /\ epic_key = <<>>
    /\ story_keys = <<>>
    /\ results = <<>>
    /\ issues = <<>>
    /\ links = {}

Init ==
    /\ \/ file_state = "ok" /\ file_text \in Documents
       \/ file_state \in {"missing", "unreadable"} /\ file_text = <<>>
    /\ pc = "open"
    /\ content = <<>>
    /\ lines = <<>>
    /\ idx = 1
    /\ current_section = <<>>
    /\ sections = <<>>
    /\ sec_idx = 1
    /\ epics = <<>>
    /\ result = <<>>
    /\ error = ""
    /\ NotRepeated /\ NoCommand /\ NoClient

\* OpenMissing that swallows the exception and goes on with empty content
OpenMissingAsEmpty ==
    /\ pc = "open"
    /\ file_state = "missing"
    /\ content' = <<>>
    /\ lines' = Split(<<>>, Newline)
    /\ pc' = "split"
    /\ UNCHANGED <<file_state, file_text, idx, current_section, sections,
                   sec_idx, epics, result, error>>
    /\ UNCHANGED notParser

\* open() raises FileNotFoundError, re-raised as FileNotFoundError
OpenMissing ==
    /\ pc = "open"
    /\ file_state = "missing"
    /\ pc' = "raised"
    /\ error' = "FileNotFoundError"
    /\ UNCHANGED <<file_state, file_text, content, lines, idx, current_section,
                   sections, sec_idx, epics, result>>
    /\ UNCHANGED notParser

\* open() or read() raises anything else, re-raised as Exception
OpenUnreadable ==
    /\ pc = "open"
    /\ file_state = "unreadable"
    /\ pc' = "raised"
    /\ error' = "Exception"
    /\ UNCHANGED <<file_state, file_text, content, lines, idx, current_section,
                   sections, sec_idx, epics, result>>
    /\ UNCHANGED notParser

\* OpenRead on a parser that keeps its sections from call to call
OpenReadKeepingSections ==
    /\ pc = "open"
    /\ file_state = "ok"
    /\ content' = file_text
    /\ lines' = Split(Strip(file_text), Newline)
    /\ idx' = 1
    /\ current_section' = <<>>
    /\ pc' = "split"
    /\ UNCHANGED <<file_state, file_text, sec_idx, epics, result, error,
                   sections>>
    /\ UNCHANGED notParser

\* content = file.read(), then _split_into_epics(content) up to its loop
OpenRead ==
    /\ pc = "open"
    /\ file_state = "ok"
    /\ content' = file_text
    /\ lines' = Split(Strip(file_text), Newline)
    /\ idx' = 1
    /\ current_section' = <<>>
    /\ sections' = <<>>
    /\ pc' = "split"
    /\ UNCHANGED <<file_state, file_text, sec_idx, epics, result, error>>
    /\ UNCHANGED notParser

\* Closed that puts the closed section first
ClosedFirst(secs, cur) == IF cur /= <<>> THEN <<Join(cur, Newline)>> \o secs ELSE secs

\* sections after current_section is closed
Closed(secs, cur) == IF cur /= <<>> THEN Append(secs, Join(cur, Newline)) ELSE secs

\* _split_into_epics: a line that is empty or a comment
SplitSkip ==
    /\ pc = "split"
    /\ idx <= Len(lines)
    /\ LET line == Strip(lines[idx])
       IN  line = <<>> \/ StartsWith(line, CommentMarker)
    /\ idx' = idx + 1
    /\ UNCHANGED <<file_state, file_text, pc, content, lines, current_section,
                   sections, sec_idx, epics, result, error>>
    /\ UNCHANGED notParser

\* SplitHeader that opens the new section without its header line
SplitHeaderUnseeded ==
    /\ pc = "split"
    /\ idx <= Len(lines)
    /\ LET line == Strip(lines[idx])
       IN  /\ ~(line = <<>> \/ StartsWith(line, CommentMarker))
           /\ IsHeader(line)
           /\ sections' = Closed(sections, current_section)
           /\ current_section' = <<>>
    /\ idx' = idx + 1
    /\ UNCHANGED <<file_state, file_text, pc, content, lines, sec_idx, epics,
                   result, error>>
    /\ UNCHANGED notParser

\* _split_into_epics: a header line
SplitHeader ==
    /\ pc = "split"
    /\ idx <= Len(lines)
    /\ LET line == Strip(lines[idx])
       IN  /\ ~(line = <<>> \/ StartsWith(line, CommentMarker))
           /\ IsHeader(line)
           /\ sections' = Closed(sections, current_section)
           /\ current_section' = <<line>>
    /\ idx' = idx + 1
    /\ UNCHANGED <<file_state, file_text, pc, content, lines, sec_idx, epics,
                   result, error>>
    /\ UNCHANGED notParser

\* _split_into_epics: any other line
SplitBody ==
    /\ pc = "split"
    /\ idx <= Len(lines)
    /\ LET line == Strip(lines[idx])
       IN  /\ ~(line = <<>> \/ StartsWith(line, CommentMarker))
           /\ ~IsHeader(line)
           /\ current_section' = Append(current_section, line)
    /\ idx' = idx + 1
    /\ UNCHANGED <<file_state, file_text, pc, content, lines, sections, sec_idx,
                   epics, result, error>>
    /\ UNCHANGED notParser

\* _split_into_epics: the end of the loop, the last section, the return
SplitEnd ==
    /\ pc = "split"
    /\ idx > Len(lines)
    /\ sections' = Closed(sections, current_section)
    /\ sec_idx' = 1
    /\ pc' = "epics"
    /\ UNCHANGED <<file_state, file_text, content, lines, idx, current_section,
                   epics, result, error>>
    /\ UNCHANGED notParser

\* the three outcomes of the loop body of parse_file for an epic
Kept(epic) ==
    /\ epic.exc = ""
    /\ KeepEpic(epic.val)
    /\ epics' = Append(epics, epic.val[1])

Dropped(epic) == epic.exc = "" /\ ~KeepEpic(epic.val)

Raised(epic) == epic.exc /= "" /\ error' = epic.exc

\* parse_file: a section whose epic is appended
ExtractKeep ==
    /\ pc = "epics"
    /\ sec_idx <= Len(sections)
    /\ Kept(_parse_epic_section(sections[sec_idx]))
    /\ sec_idx' = sec_idx + 1
    /\ UNCHANGED <<file_state, file_text, pc, content, lines, idx,
                   current_section, sections, result, error>>
    /\ UNCHANGED notParser

\* parse_file: a section that gives no epic, or an epic without stories
ExtractDrop ==
    /\ pc = "epics"
    /\ sec_idx <= Len(sections)
    /\ Dropped(_parse_epic_section(sections[sec_idx]))
    /\ sec_idx' = sec_idx + 1
    /\ UNCHANGED <<file_state, file_text, pc, content, lines, idx,
                   current_section, sections, epics, result, error>>
    /\ UNCHANGED notParser

\* parse_file: a section whose parsing raises; nothing catches it
ExtractRaise ==
    /\ pc = "epics"
    /\ sec_idx <= Len(sections)
    /\ Raised(_parse_epic_section(sections[sec_idx]))
    /\ pc' = "raised"
    /\ UNCHANGED <<file_state, file_text, content, lines, idx, current_section,
                   sections, sec_idx, epics, result>>
    /\ UNCHANGED notParser

\* parse_file: return epics
Return ==
    /\ pc = "epics"
    /\ sec_idx > Len(sections)
    /\ result' = <<epics>>
    /\ pc' = "done"
    /\ UNCHANGED <<file_state, file_text, content, lines, idx, current_section,
                   sections, sec_idx, epics, error>>
    /\ UNCHANGED notParser

Next ==
    \/ OpenMissing
    \/ OpenUnreadable
    \/ OpenRead
    \/ SplitSkip
    \/ SplitHeader
    \/ SplitBody
    \/ SplitEnd
    \/ ExtractKeep
    \/ ExtractDrop
    \/ ExtractRaise
    \/ Return

Spec == Init /\ [][Next]_vars

----------------------------------------------------------------------------
(* parse_file called again and again, on the same or another StoryParser *)

\* the StoryParser objects: each holds the two patterns of __init__ only
Instances == {1, 2}

\* lines that are blank, a comment, or body text that is no item
NeutralLines == { <<>>, <<"#"," ","c">>, <<"n","o","t","e">> }

RepeatLines == { EpicMarker \o <<" ","A">>, <<"-"," ","s">>, <<"n","o","t","e">> }

\* texts without a points token that int() refuses
RepeatDocs == {Join(ls, Newline) : ls \in SeqsUpTo(RepeatLines, MaxRepeatLines)}

\* files of other parses
OtherFiles ==
    { [state |-> "ok",
       text |-> Join(<<EpicMarker \o <<" ","B">>, <<"-"," ","t"," ","{","5","}">>>>, Newline)],
      [state |-> "missing", text |-> <<>>],
      [state |-> "unreadable", text |-> <<>>] }

\* the index of the first header line of ls, or 0
FirstHeader(ls) ==
    IF \A i \in DOMAIN ls : ~IsHeader(Strip(ls[i])) THEN 0
    ELSE CHOOSE i \in DOMAIN ls :
             IsHeader(Strip(ls[i])) /\ \A j \in 1..(i-1) : ~IsHeader(Strip(ls[j]))

\* a blank line, a comment, or a line that is neither header nor item
Neutral(line) ==
    \/ Strip(line) = <<>>
    \/ StartsWith(Strip(line), CommentMarker)
    \/ ~IsHeader(Strip(line)) /\ ~StartsWith(Strip(line), ItemMarker)

Inserted(ls, k, n) == SubSeq(ls, 1, k) \o <<n>> \o SubSeq(ls, k + 1, Len(ls))

Deleted(ls, j) == SubSeq(ls, 1, j - 1) \o SubSeq(ls, j + 1, Len(ls))

\* the texts made from the lines ls, whose first header is line h, by
\* inserting or deleting one neutral line after that header
NeighboursOf(ls, h) ==
    IF h = 0 THEN {}
    ELSE {Join(Inserted(ls, k, n), Newline) : k \in h..Len(ls), n \in NeutralLines}
         \cup {Join(Deleted(ls, j), Newline) : j \in {i \in (h+1)..Len(ls) : Neutral(ls[i])}}

Neighbours(text) == NeighboursOf(Split(text, Newline), FirstHeader(Split(text, Newline)))

\* the files a later call may be given: the same file, a file parsed
\* before, the file with a neutral line more or less, another file
NextFiles ==
    {[state |-> file_state, text |-> file_text]}
        \cup {[state |-> seen[i].state, text |-> seen[i].text] : i \in DOMAIN seen}
        \cup (IF file_state = "ok"
              THEN {[state |-> "ok", text |-> t] : t \in Neighbours(file_text)}
              ELSE {})
        \cup OtherFiles

\* what a call of parse_file ended with
Outcome == [pc |-> pc, result |-> result, error |-> error]

InitRepeat ==
    /\ \/ file_state = "ok" /\ file_text \in RepeatDocs
       \/ file_state \in {"missing", "unreadable"} /\ file_text = <<>>
    /\ pc = "open"
    /\ content = <<>>
    /\ lines = <<>>
    /\ idx = 1
    /\ current_section = <<>>
    /\ sections = <<>>
    /\ sec_idx = 1
    /\ epics = <<>>
    /\ result = <<>>
    /\ error = ""
    /\ NotRepeated /\ NoCommand /\ NoClient

\* the next call of parse_file, up to 'epics = []'; what the last call
\* left in the other variables is still there
CallAgain ==
    /\ pc \in {"done", "raised"}
    /\ calls < MaxCalls
    /\ seen' = Append(seen, [state |-> file_state, text |-> file_text,
                             instance |-> instance, outcome |-> Outcome])
    /\ calls' = calls + 1
    /\ instance' \in Instances
    /\ \E f \in NextFiles : file_state' = f.state /\ file_text' = f.text
    /\ pc' = "open"
    /\ epics' = <<>>
    /\ result' = <<>>
    /\ error' = ""
    /\ UNCHANGED <<content, lines, idx, current_section, sections, sec_idx>>
    /\ UNCHANGED <<cmdVars, clientVars>>

\* no file of these calls makes _parse_story raise, so ExtractRaise has
\* no part in them
NextRepeat ==
    \/ OpenMissing
    \/ OpenUnreadable
    \/ OpenRead
    \/ SplitSkip
    \/ SplitHeader
    \/ SplitBody
    \/ SplitEnd
    \/ ExtractKeep
    \/ ExtractDrop
    \/ Return
    \/ CallAgain

SpecRepeat == InitRepeat /\ [][NextRepeat]_vars

----------------------------------------------------------------------------
(* JiraClient (jira_client.py) *)

\* the key the JIRA server gives to the next issue it creates
NextKey == Len(issues) + 1

\* self.jira.create_issue(fields=epic_fields), done by the server
EpicIssue(e) ==
    [type |-> "Epic", key |-> NextKey, epic |-> e, story |-> 0, parent |-> <<>>]

\* self.jira.create_issue(fields=story_fields), done by the server, for
\* the call create_story(story, parent)
StoryIssue(e, j, parent) ==
    [type |-> "Story", key |-> NextKey, epic |-> e, story |-> j, parent |-> parent]

\* results = {} and the test of self.jira, on a client that is not connected
ClientNotConnected ==
    /\ client_pc = "begin"
    /\ ~jira
    /\ results' = <<>>
    /\ client_pc' = "returned"
    /\ UNCHANGED <<jira, connects, epics_arg, epic_i, story_j, epic_key, story_keys,
                   issues, links>>
    /\ UNCHANGED <<parserVars, repeatVars, cmdVars>>

\* results = {} and the test of self.jira, on a connected client
ClientStart ==
    /\ client_pc = "begin"
    /\ jira
    /\ results' = <<>>
    /\ epic_i' = 1
    /\ client_pc' = "epic"
    /\ UNCHANGED <<jira, connects, epics_arg, story_j, epic_key, story_keys,
                   issues, links>>
    /\ UNCHANGED <<parserVars, repeatVars, cmdVars>>

\* create_epic returns the key of the epic it created
EpicCreated ==
    /\ client_pc = "epic"
    /\ epic_i <= Len(epics_arg)
    /\ issues' = Append(issues, EpicIssue(epic_i))
    /\ epic_key' = <<NextKey>>
    /\ story_keys' = <<>>
    /\ story_j' = 1
    /\ client_pc' = "story"
    /\ UNCHANGED <<jira, connects, epics_arg, epic_i, results, links>>
    /\ UNCHANGED <<parserVars, repeatVars, cmdVars>>

\* EpicFailed that goes on to the stories of the epic
EpicFailedStoriesCreated ==
    /\ client_pc = "epic"
    /\ epic_i <= Len(epics_arg)
    /\ epic_key' = <<>>
    /\ story_keys' = <<>>
    /\ story_j' = 1
    /\ client_pc' = "story"
    /\ UNCHANGED <<jira, connects, epics_arg, epic_i, results, issues, links>>
    /\ UNCHANGED <<parserVars, repeatVars, cmdVars>>

\* create_epic catches the error of create_issue and returns None
EpicFailed ==
    /\ client_pc = "epic"
    /\ epic_i <= Len(epics_arg)
    /\ epic_key' = <<>>
    /\ epic_i' = epic_i + 1
    /\ UNCHANGED <<jira, connects, client_pc, epics_arg, story_j, story_keys,
                   results, issues, links>>
    /\ UNCHANGED <<parserVars, repeatVars, cmdVars>>

\* create_story creates the story; add_issues_to_epic then links it to
\* epic_key, or fails, which create_story reports and passes over
StoryCreated ==
    /\ client_pc = "story"
    /\ story_j <= Len(epics_arg[epic_i].stories)
    /\ issues' = Append(issues, StoryIssue(epic_i, story_j, epic_key))
    /\ \/ epic_key /= <<>> /\ links' = links \cup {<<epic_key[1], NextKey>>}
       \/ links' = links
    /\ story_keys' = Append(story_keys, NextKey)
    /\ story_j' = story_j + 1
    /\ UNCHANGED <<jira, connects, client_pc, epics_arg, epic_i, epic_key, results>>
    /\ UNCHANGED <<parserVars, repeatVars, cmdVars>>

\* create_story catches the error of create_issue and returns None
StoryFailed ==
    /\ client_pc = "story"
    /\ story_j <= Len(epics_arg[epic_i].stories)
    /\ story_j' = story_j + 1
    /\ UNCHANGED <<jira, connects, client_pc, epics_arg, epic_i, epic_key, story_keys,
                   results, issues, links>>
    /\ UNCHANGED <<parserVars, repeatVars, cmdVars>>

\* results[epic_key] = story_keys, after the last story of the epic
EpicDone ==
    /\ client_pc = "story"
    /\ story_j > Len(epics_arg[epic_i].stories)
    /\ epic_key /= <<>>
    /\ results' = Append(results, [key |-> epic_key[1], stories |-> story_keys])
    /\ epic_i' = epic_i + 1
    /\ client_pc' = "epic"
    /\ UNCHANGED <<jira, connects, epics_arg, story_j, epic_key, story_keys,
                   issues, links>>
    /\ UNCHANGED <<parserVars, repeatVars, cmdVars>>

\* return results, after the last epic
ClientReturn ==
    /\ client_pc = "epic"
    /\ epic_i > Len(epics_arg)
    /\ client_pc' = "returned"
    /\ UNCHANGED <<jira, connects, epics_arg, epic_i, story_j, epic_key, story_keys,
                   results, issues, links>>
    /\ UNCHANGED <<parserVars, repeatVars, cmdVars>>

\* a UserStory and an Epic as the client is given them
AStory ==
    [title |-> <<"s">>, description |-> <<"s">>, priority |-> <<>>, story_points |-> <<>>]

EpicOfSize(n) == [title |-> <<"A">>, stories |-> [j \in 1..n |-> AStory]]

ClientEpics ==
    {[e \in DOMAIN sizes |-> EpicOfSize(sizes[e])] : sizes \in SeqsUpTo(0..MaxStories, MaxEpics)}

\* no call of parse_file is running or was made
ParserIdle ==
    /\ pc = "idle"
    /\ content = <<>>
    /\ lines = <<>>
    /\ idx = 1
    /\ current_section = <<>>
    /\ sections = <<>>
    /\ sec_idx = 1
    /\ epics = <<>>
    /\ result = <<>>
    /\ error = ""

\* create_epics_and_stories(epics) is called on a client on which connect
\* was not called, or failed before or after self.jira was set, or succeeded
InitClient ==
    /\ file_state = "ok" /\ file_text = <<>>
    /\ ParserIdle
    /\ NotRepeated /\ NoCommand
    /\ \/ jira = FALSE /\ connects \in {0, 1}
       \/ jira = TRUE /\ connects = 1
    /\ client_pc = "begin"
    /\ epics_arg \in ClientEpics
    /\ epic_i = 1
    /\ story_j = 1
    /\ epic_key = <<>>
    /\ story_keys = <<>>
    /\ results = <<>>
    /\ issues = <<>>
    /\ links = {}

NextClient ==
    \/ ClientNotConnected
    \/ ClientStart
    \/ EpicCreated
    \/ EpicFailed
    \/ StoryCreated
    \/ StoryFailed
    \/ EpicDone
    \/ ClientReturn

SpecClient == InitClient /\ [][NextClient]_vars

----------------------------------------------------------------------------
(* The create command (jira_agent.py) *)

CreateLines == { EpicMarker \o <<" ","A">>, <<"-"," ","s">> }

\* the files the command is run on
CreateDocs ==
    {Join(ls, Newline) : ls \in SeqsUpTo(CreateLines, MaxCreateLines)} \cup {LongPointsDoc}

\* what client.connect() can do: set self.jira and find the project, fail
\* to build the JIRA object, or build it and fail to find the project
ConnectOutcomes == {"ok", "refused", "no_project"}

InitCreate ==
    /\ \/ file_state = "ok" /\ file_text \in CreateDocs
       \/ file_state \in {"missing", "unreadable"} /\ file_text = <<>>
    /\ ParserIdle
    /\ NotRepeated
    /\ cmd_pc = "start"
    /\ config_valid \in BOOLEAN
    /\ dry_run \in BOOLEAN
    /\ exit_code = <<>>
    /\ NoClient

\* sys.exit(code)
Exit(code) == cmd_pc' = "exited" /\ exit_code' = <<code>>

\* validate_config() fails
CmdInvalidConfig ==
    /\ cmd_pc = "start"
    /\ ~config_valid
    /\ Exit(1)
    /\ UNCHANGED <<config_valid, dry_run>>
    /\ UNCHANGED <<parserVars, repeatVars, clientVars>>

\* the input file does not exist
CmdFileNotFound ==
    /\ cmd_pc = "start"
    /\ config_valid
    /\ file_state = "missing"
    /\ Exit(1)
    /\ UNCHANGED <<config_valid, dry_run>>
    /\ UNCHANGED <<parserVars, repeatVars, clientVars>>

\* parser = StoryParser(); parser.parse_file(input_file_path) is called
CmdParse ==
    /\ cmd_pc = "start"
    /\ config_valid
    /\ file_state /= "missing"
    /\ cmd_pc' = "parsing"
    /\ pc' = "open"
    /\ UNCHANGED <<file_state, file_text, content, lines, idx, current_section,
                   sections, sec_idx, epics, result, error>>
    /\ UNCHANGED <<config_valid, dry_run, exit_code>>
    /\ UNCHANGED <<repeatVars, clientVars>>

\* parse_file raised
CmdParseError ==
    /\ cmd_pc = "parsing"
    /\ pc = "raised"
    /\ Exit(1)
    /\ UNCHANGED <<config_valid, dry_run>>
    /\ UNCHANGED <<parserVars, repeatVars, clientVars>>

\* parse_file returned epics
Parsed == cmd_pc = "parsing" /\ pc = "done"

\* if not epics
CmdNoEpics ==
    /\ Parsed
    /\ result[1] = <<>>
    /\ Exit(0)
    /\ UNCHANGED <<config_valid, dry_run>>
    /\ UNCHANGED <<parserVars, repeatVars, clientVars>>

\* if dry_run: return
CmdDryRun ==
    /\ Parsed
    /\ result[1] /= <<>>
    /\ dry_run
    /\ cmd_pc' = "returned"
    /\ UNCHANGED <<config_valid, dry_run, exit_code>>
    /\ UNCHANGED <<parserVars, repeatVars, clientVars>>

\* the JiraClient is made and client.connect() is called, with outcome o
Connect(o) ==
    /\ connects' = connects + 1
    /\ jira' = (o /= "refused")
    /\ IF o = "ok"
       THEN cmd_pc' = "connected" /\ exit_code' = exit_code
       ELSE Exit(1)

\* CmdConnect without the test of dry_run before it
CmdConnectInDryRun ==
    /\ Parsed
    /\ result[1] /= <<>>
    /\ \E o \in ConnectOutcomes : Connect(o)
    /\ UNCHANGED <<config_valid, dry_run>>
    /\ UNCHANGED <<client_pc, epics_arg, epic_i, story_j, epic_key, story_keys,
                   results, issues, links>>
    /\ UNCHANGED <<parserVars, repeatVars>>

\* client = JiraClient(...); if not client.connect(): sys.exit(1)
CmdConnect ==
    /\ Parsed
    /\ result[1] /= <<>>
    /\ ~dry_run
    /\ \E o \in ConnectOutcomes : Connect(o)
    /\ UNCHANGED <<config_valid, dry_run>>
    /\ UNCHANGED <<client_pc, epics_arg, epic_i, story_j, epic_key, story_keys,
                   results, issues, links>>
    /\ UNCHANGED <<parserVars, repeatVars>>

\* client.create_epics_and_stories(epics) is called
CmdCreate ==
    /\ cmd_pc = "connected"
    /\ cmd_pc' = "creating"
    /\ client_pc' = "begin"
    /\ epics_arg' = result[1]
    /\ UNCHANGED <<config_valid, dry_run, exit_code>>
    /\ UNCHANGED <<jira, connects, epic_i, story_j, epic_key, story_keys, results,
                   issues, links>>
    /\ UNCHANGED <<parserVars, repeatVars>>

\* the results are displayed and the command returns
CmdReport ==
    /\ cmd_pc = "creating"
    /\ client_pc = "returned"
    /\ cmd_pc' = "returned"
    /\ UNCHANGED <<config_valid, dry_run, exit_code>>
    /\ UNCHANGED <<parserVars, repeatVars, clientVars>>

\* The command tests os.path.exists before it parses and calls
\* create_epics_and_stories only on a connected client, so OpenMissing and
\* ClientNotConnected have no part in it.
NextCreate ==
    \/ CmdInvalidConfig
    \/ CmdFileNotFound
    \/ CmdParse
    \/ OpenUnreadable
    \/ OpenRead
    \/ SplitSkip
    \/ SplitHeader
    \/ SplitBody
    \/ SplitEnd
    \/ ExtractKeep
    \/ ExtractDrop
    \/ ExtractRaise
    \/ Return
    \/ CmdParseError
    \/ CmdNoEpics
    \/ CmdDryRun
    \/ CmdConnect
    \/ CmdCreate
    \/ ClientStart
    \/ EpicCreated
    \/ EpicFailed
    \/ StoryCreated
    \/ StoryFailed
    \/ EpicDone
    \/ ClientReturn
    \/ CmdReport

SpecCreate == InitCreate /\ [][NextCreate]_vars

----------------------------------------------------------------------------
(* What the properties are stated over: the file as a reader sees it *)

Returned == pc = "done"

\* the lines of the file, each trimmed
SrcLines ==
    LET ls == Split(Strip(file_text), Newline)
    IN  [i \in DOMAIN ls |-> Strip(ls[i])]

HeaderIdx == {i \in DOMAIN SrcLines : IsHeader(SrcLines[i])}

\* an item line with content
IsItem(line) == StartsWith(line, ItemMarker) /\ Strip(Tail(line)) /= <<>>

\* the item lines of the section that the header at h opens
ItemsOf(h) ==
    {j \in DOMAIN SrcLines :
        /\ j > h
        /\ IsItem(SrcLines[j])
        /\ \A g \in HeaderIdx : g <= h \/ g > j}

\* the elements of a set of numbers in increasing order
Ascending(S) ==
    [k \in 1..Cardinality(S) |-> CHOOSE i \in S : Cardinality({j \in S : j <= i}) = k]

AllStories(es) == UNION {Range(es[i].stories) : i \in DOMAIN es}

\* the spans <<i, j>> of s that are an opening character, one or more
\* characters of the class, and a closing character
TokenSpans(s, pat) ==
    {sp \in {i \in DOMAIN s : s[i] = pat.open} \X {j \in DOMAIN s : s[j] = pat.close} :
        /\ sp[2] > sp[1] + 1
        /\ \A k \in (sp[1]+1)..(sp[2]-1) : s[k] \in pat.class}

FirstSpan(spans) == CHOOSE sp \in spans : \A o \in spans : sp[1] <= o[1]

LastSpan(spans) == CHOOSE sp \in spans : \A o \in spans : sp[1] >= o[1]

RECURSIVE WithoutFrom(_, _, _)
WithoutFrom(s, spans, i) ==
    IF i > Len(s) THEN <<>>
    ELSE (IF \E sp \in spans : sp[1] <= i /\ i <= sp[2] THEN <<>> ELSE <<s[i]>>)
         \o WithoutFrom(s, spans, i + 1)

\* s with the characters of the spans deleted
Without(s, spans) == WithoutFrom(s, spans, 1)

Contains(s, t) == \E i \in 1..(Len(s) - Len(t) + 1) : SubSeq(s, i, i + Len(t) - 1) = t

\* a file of one header line and one item line with content, parsed to
\* one epic of one story
OneStory ==
    /\ Returned
    /\ Len(SrcLines) = 2
    /\ IsHeader(SrcLines[1])
    /\ IsItem(SrcLines[2])
    /\ Len(result[1]) = 1
    /\ Len(result[1][1].stories) = 1

ItemContent == Strip(Tail(SrcLines[2]))

TheStory == result[1][1].stories[1]

\* the item's content with its bracketed words deleted
AfterPriority ==
    Strip(Without(ItemContent, TokenSpans(ItemContent, priority_pattern)))

\* the item's content with its bracketed words, then its braced numbers, deleted
AfterPoints ==
    Strip(Without(AfterPriority, TokenSpans(AfterPriority, story_points_pattern)))

----------------------------------------------------------------------------
(* C1 *)

\* C1: every Epic that parse_file collects and returns has at least one
\* story; a header whose section gives no story is not in the result.
C1_EpicsHaveStories ==
    /\ \A i \in DOMAIN epics : Len(epics[i].stories) >= 1
    /\ Returned =>
           /\ \A i \in DOMAIN result[1] : Len(result[1][i].stories) >= 1
           /\ Len(result[1]) <= Cardinality({h \in HeaderIdx : ItemsOf(h) /= {}})

\* a returned result that kept an epic and left out a header without stories
C1_Witness ==
    /\ Returned
    /\ Len(result[1]) >= 1
    /\ \E h \in HeaderIdx : ItemsOf(h) = {}

----------------------------------------------------------------------------
(* C2 *)

\* the item's content holds exactly two bracketed words
TwoBracketed ==
    OneStory /\ Cardinality(TokenSpans(ItemContent, priority_pattern)) = 2

\* the text between the delimiters of a span
Inside(s, sp) == SubSeq(s, sp[1] + 1, sp[2] - 1)

----------------------------------------------------------------------------
(* C3 *)

\* the item's content holds exactly two braced numbers
TwoBraced ==
    OneStory /\ Cardinality(TokenSpans(ItemContent, story_points_pattern)) = 2

\* the content left by the priority extraction holds exactly two braced numbers
TwoBracedAfterPriority ==
    OneStory /\ Cardinality(TokenSpans(AfterPriority, story_points_pattern)) = 2

\* the number a digit string denotes
RECURSIVE NumberOf(_)
NumberOf(ds) ==
    IF ds = <<>> THEN 0
    ELSE LET d == ds[Len(ds)]
         IN  10 * NumberOf(SubSeq(ds, 1, Len(ds) - 1))
             + (CASE d = "0" -> 0 [] d = "1" -> 1 [] d = "2" -> 2 [] d = "3" -> 3
                  [] d = "4" -> 4 [] d = "5" -> 5 [] d = "6" -> 6 [] d = "7" -> 7
                  [] d = "8" -> 8 [] d = "9" -> 9)

----------------------------------------------------------------------------
(* C4 *)

\* the text that follows the leading marker of a header line, trimmed
TextAfterMarker(line) == Strip(SliceFrom(line, Len(EpicMarker) + 1))

----------------------------------------------------------------------------
(* C5 *)

\* C5: every UserStory of the returned Epics has a title that is not empty
\* after trimming.
C5_TitleNotEmpty ==
    Returned => \A st \in AllStories(result[1]) : Strip(st.title) /= <<>>

----------------------------------------------------------------------------
(* C6 *)

\* the Epics a reader expects: one for each header that has item lines
\* with content, in the order of the headers, with the stories of these
\* item lines in their order
ExpectedEpics ==
    LET hs == Ascending({h \in HeaderIdx : ItemsOf(h) /= {}})
    IN  [k \in DOMAIN hs |->
            LET items == Ascending(ItemsOf(hs[k]))
            IN  [title |-> EpicTitle(SrcLines[hs[k]]),
                 stories |-> [m \in DOMAIN items |->
                                 _parse_story(SrcLines[items[m]]).val[1]]]]

\* C6: the returned Epics are those of the headers, in the order of the
\* headers, and each holds the stories of its own item lines, in the
\* order of these lines: nothing is reordered, duplicated or moved.
C6_OrderPreserved ==
    Returned => result[1] = ExpectedEpics

\* two epics returned, with different titles and different stories
C6_Witness ==
    /\ Returned
    /\ Len(result[1]) = 2
    /\ result[1][1].title /= result[1][2].title
    /\ result[1][1].stories /= result[1][2].stories

----------------------------------------------------------------------------
(* C7 *)

\* the item lines with content that come after some header
ItemsAfterHeader ==
    {j \in DOMAIN SrcLines : IsItem(SrcLines[j]) /\ \E h \in HeaderIdx : h < j}

RECURSIVE CountStories(_)
CountStories(es) ==
    IF es = <<>> THEN 0 ELSE Len(es[1].stories) + CountStories(Tail(es))

\* C7: a file without a header line gives the empty sequence, and lines
\* before the first header give neither an Epic nor a story: there are no
\* more Epics than headers and no more stories than item lines after a
\* header.
C7_LeadingContentDropped ==
    Returned =>
        /\ HeaderIdx = {} => result[1] = <<>>
        /\ Len(result[1]) <= Cardinality(HeaderIdx)
        /\ CountStories(result[1]) <= Cardinality(ItemsAfterHeader)

\* a returned parse of a file that has item lines before its first header
C7_Witness ==
    /\ Returned
    /\ \E j \in DOMAIN SrcLines :
           IsItem(SrcLines[j]) /\ \A h \in HeaderIdx : j < h
    /\ \E j \in DOMAIN SrcLines :
           ~IsItem(SrcLines[j]) /\ SrcLines[j] /= <<>> /\ \A h \in HeaderIdx : j < h

----------------------------------------------------------------------------
(* C8 *)

\* C8: when the path does not exist parse_file raises FileNotFoundError,
\* runs neither segmentation nor epic extraction and returns nothing.
C8_MissingFileRaises ==
    file_state = "missing" =>
        /\ pc \in {"open", "raised"}
        /\ pc = "raised" => error = "FileNotFoundError"
        /\ lines = <<>> /\ sections = <<>> /\ epics = <<>> /\ result = <<>>

\* parse_file has raised for a missing file
C8_Witness == file_state = "missing" /\ pc = "raised"

----------------------------------------------------------------------------
(* C9 *)

\* C9: once the file has been read parse_file never raises.
C9_NeverRaisesAfterRead ==
    file_state = "ok" => pc /= "raised"

----------------------------------------------------------------------------
(* C10 *)

\* 'I want to ', in any case, at position i of d with a character other
\* than a comma after it
PhraseAt(d, i) ==
    /\ i >= 1
    /\ i + 10 <= Len(d)
    /\ d[i] \in {"i", "I"}
    /\ d[i+1] = " "
    /\ d[i+2] \in {"w", "W"} /\ d[i+3] \in {"a", "A"}
    /\ d[i+4] \in {"n", "N"} /\ d[i+5] \in {"t", "T"}
    /\ d[i+6] = " "
    /\ d[i+7] \in {"t", "T"} /\ d[i+8] \in {"o", "O"}
    /\ d[i+9] = " "
    /\ d[i+10] /= ","

HasPhrase(d) == \E i \in DOMAIN d : PhraseAt(d, i)

\* the text after the first such phrase up to the next comma or the end
Action(d) ==
    LET p == CHOOSE i \in DOMAIN d : PhraseAt(d, i) /\ \A j \in 1..(i-1) : ~PhraseAt(d, j)
        commas == {j \in (p+10)..Len(d) : d[j] = ","}
        stop == IF commas = {} THEN Len(d) + 1
                ELSE CHOOSE j \in commas : \A o \in commas : j <= o
    IN  Strip(SubSeq(d, p + 10, stop - 1))

\* a text with its first character in upper case
UpperFirst(t) == [i \in DOMAIN t |-> IF i = 1 THEN ToUpper(t[1]) ELSE t[i]]

----------------------------------------------------------------------------
(* C11 *)

----------------------------------------------------------------------------
(* C12 *)

\* a file of one header line and one item line with content
OneItem ==
    /\ file_state = "ok"
    /\ Len(SrcLines) = 2
    /\ IsHeader(SrcLines[1])
    /\ IsItem(SrcLines[2])

\* the item's content holds exactly one bracketed word and exactly one
\* braced number
OneOfEach ==
    /\ OneItem
    /\ Cardinality(TokenSpans(ItemContent, priority_pattern)) = 1
    /\ Cardinality(TokenSpans(ItemContent, story_points_pattern)) = 1

\* C12: an item line with exactly one bracketed word [W] and exactly one
\* braced number {N}, in either order and anywhere in the line, is parsed
\* to a story with priority W and story points N whose description is
\* the content without the two tokens, trimmed, and holds neither token.
C12_BothExtracted ==
    (OneOfEach /\ pc \in {"done", "raised"}) =>
        LET ps == TokenSpans(ItemContent, priority_pattern)
            ns == TokenSpans(ItemContent, story_points_pattern)
        IN  /\ pc = "done"
            /\ Len(result[1]) = 1
            /\ Len(result[1][1].stories) = 1
            /\ TheStory.priority = <<Inside(ItemContent, FirstSpan(ps))>>
            /\ TheStory.story_points = <<NumberOf(Inside(ItemContent, FirstSpan(ns)))>>
            /\ TheStory.description = Strip(Without(ItemContent, ps \cup ns))
            /\ TokenSpans(TheStory.description, priority_pattern) = {}
            /\ TokenSpans(TheStory.description, story_points_pattern) = {}

----------------------------------------------------------------------------
(* C13 *)

\* a call of parse_file has ended
Finished == pc \in {"done", "raised"}

\* C13: parsing is deterministic and keeps no state: a call of parse_file
\* ends as every earlier call on the same file did, with an equal result
\* or the same exception, whether on the same StoryParser or another and
\* whatever was parsed between the two.
C13_SameTextSameResult ==
    Finished =>
        \A i \in DOMAIN seen :
            (seen[i].state = file_state /\ seen[i].text = file_text) =>
                seen[i].outcome = Outcome

\* a third call returns the epic that the first returned for the same
\* text, on another StoryParser, after a call that returned another result
C13_Witness ==
    /\ Returned
    /\ Len(seen) = 2
    /\ seen[1].text = file_text
    /\ seen[1].instance /= instance
    /\ seen[2].text /= file_text
    /\ seen[2].outcome /= Outcome
    /\ seen[2].outcome.pc = "done"
    /\ Len(seen[2].outcome.result[1]) = 1
    /\ Len(result[1]) = 1

----------------------------------------------------------------------------
(* C14 *)

\* the first line of a section
FirstLine(section) == Split(section, Newline)[1]

\* the lines before the first header that are neither empty nor comments
LeadingLines ==
    SelectSeq(SubSeq(SrcLines, 1,
                     IF HeaderIdx = {} THEN Len(SrcLines)
                     ELSE (CHOOSE h \in HeaderIdx : \A g \in HeaderIdx : h <= g) - 1),
              LAMBDA l : l /= <<>> /\ ~StartsWith(l, CommentMarker))

\* C14 as stated: a line that is neither a header nor discarded, read
\* while no section is open, changes nothing: no section is opened by it,
\* and every section of _split_into_epics begins with a header line.
C14_SectionsBeginWithHeader ==
    /\ current_section /= <<>> => IsHeader(current_section[1])
    /\ \A i \in DOMAIN sections : IsHeader(FirstLine(sections[i]))

\* C14 as amended: such a line opens a section without header, made of
\* the lines before the first header; _split_into_epics emits it as its
\* first section, every later section begins with a header line, and the
\* section without header gives no epic.
C14_OnlyFirstWithoutHeader ==
    /\ (pc = "split" /\ current_section /= <<>> /\ ~IsHeader(current_section[1])) =>
           /\ sections = <<>>
           /\ Len(current_section) <= Len(LeadingLines)
           /\ current_section = SubSeq(LeadingLines, 1, Len(current_section))
    /\ \A i \in DOMAIN sections :
           IF IsHeader(FirstLine(sections[i]))
           THEN TRUE
           ELSE i = 1 /\ sections[1] = Join(LeadingLines, Newline)
    /\ pc \in {"epics", "done"} =>
           Len(epics) <= Cardinality({i \in 1..(sec_idx - 1) : IsHeader(FirstLine(sections[i]))})

\* a section without header was emitted first, a section with a header
\* after it, and only the second gave an epic
C14_Witness ==
    /\ Returned
    /\ Len(sections) >= 2
    /\ ~IsHeader(FirstLine(sections[1]))
    /\ Contains(sections[1], Newline)
    /\ Len(result[1]) = Len(sections) - 1

----------------------------------------------------------------------------
(* C15 *)

\* the headers whose sections have an item line with content, in file order
HeadersWithItems == Ascending({h \in HeaderIdx : ItemsOf(h) /= {}})

\* C15: within an epic section every line that starts with '-' and has
\* text after the marker yields exactly one story, and a '-' line without
\* text yields none and leaves the other stories of the epic alone: once
\* a readable file is parsed, each epic has as many stories as its section
\* has item lines with text.
C15_OneStoryPerItem ==
    (file_state = "ok" /\ pc \in {"done", "raised"}) =>
        /\ pc = "done"
        /\ Len(result[1]) = Len(HeadersWithItems)
        /\ \A k \in DOMAIN result[1] :
               Len(result[1][k].stories) = Cardinality(ItemsOf(HeadersWithItems[k]))

----------------------------------------------------------------------------
(* C16 *)

\* the lines ls, whose first header is line h, without the neutral lines
\* after that header
EssentialOf(ls, h) ==
    IF h = 0 THEN ls
    ELSE SubSeq(ls, 1, h)
         \o SelectSeq(SubSeq(ls, h + 1, Len(ls)), LAMBDA l : ~Neutral(l))

Essential(text) == EssentialOf(Split(text, Newline), FirstHeader(Split(text, Newline)))

\* C16: blank lines, comment lines and body lines that do not start with
\* '-' change nothing: two files that differ only in such lines after a
\* header are parsed to equal results.
C16_NeutralLinesChangeNothing ==
    Finished =>
        \A i \in DOMAIN seen :
            (seen[i].state = file_state /\ Essential(seen[i].text) = Essential(file_text)) =>
                seen[i].outcome = Outcome

\* a file with a story returned what it returned two neutral lines ago
C16_Witness ==
    /\ Returned
    /\ Len(result[1]) = 1
    /\ \E i \in DOMAIN seen :
           /\ Essential(seen[i].text) = Essential(file_text)
           /\ Len(Split(file_text, Newline)) = Len(Split(seen[i].text, Newline)) + 2
           /\ seen[i].outcome = Outcome

----------------------------------------------------------------------------
(* C17 *)

\* C17: the create command run with --dry-run never connects to JIRA and
\* never has an epic or a story created: it exits before or returns right
\* after parsing, with epics parsed, and no JiraClient is ever made.
C17_DryRunNeverConnects ==
    dry_run =>
        /\ connects = 0
        /\ ~jira
        /\ client_pc = "none"
        /\ issues = <<>> /\ links = {} /\ results = <<>>
        /\ cmd_pc \in {"start", "parsing", "returned", "exited"}
        /\ cmd_pc = "returned" =>
               pc = "done" /\ result[1] /= <<>> /\ exit_code = <<>>

\* a dry run has returned after parsing an epic
C17_Witness ==
    /\ dry_run
    /\ cmd_pc = "returned"
    /\ Len(result[1]) >= 1
    /\ connects = 0

----------------------------------------------------------------------------
(* C18 *)

\* the issues of the server, by position, that are the epic made for the
\* e-th epic, and the stories made for it
EpicIssuesOf(e) ==
    {n \in DOMAIN issues : issues[n].type = "Epic" /\ issues[n].epic = e}

StoryIssuesOf(e) ==
    {n \in DOMAIN issues : issues[n].type = "Story" /\ issues[n].epic = e}

KeysOf(ns) == [k \in DOMAIN ns |-> issues[ns[k]].key]

\* a story is created only after the epic of its own Epic object was,
\* and is given that epic's key
StoryAfterOwnEpic ==
    \A n \in DOMAIN issues :
        issues[n].type = "Story" =>
            \E m \in EpicIssuesOf(issues[n].epic) :
                m < n /\ issues[n].parent = <<issues[m].key>>

\* every created story is linked to the key of its own epic
EveryStoryLinked ==
    \A n \in DOMAIN issues :
        issues[n].type = "Story" =>
            \E m \in EpicIssuesOf(issues[n].epic) :
                <<issues[m].key, issues[n].key>> \in links

\* every link that is made links a created story to the key of its own epic
LinksToOwnEpicOnly ==
    \A l \in links :
        \E n \in DOMAIN issues :
            /\ issues[n].type = "Story"
            /\ issues[n].key = l[2]
            /\ \E m \in EpicIssuesOf(issues[n].epic) : issues[m].key = l[1]

\* an epic whose creation failed has no story and no entry, and every
\* entry is that of a created epic
FailedEpicLeavesNothing ==
    /\ \A e \in DOMAIN epics_arg :
           EpicIssuesOf(e) = {} => StoryIssuesOf(e) = {}
    /\ \A k \in DOMAIN results :
           \E n \in DOMAIN issues : issues[n].type = "Epic" /\ issues[n].key = results[k].key

\* once a connected client returns, every epic was gone through and the
\* result has, for each created epic in order, the keys of its created
\* stories in order
AllProcessed ==
    (client_pc = "returned" /\ jira) =>
        /\ epic_i = Len(epics_arg) + 1
        /\ LET created == Ascending({n \in DOMAIN issues : issues[n].type = "Epic"})
           IN  results = [k \in DOMAIN created |->
                             [key |-> issues[created[k]].key,
                              stories |-> KeysOf(Ascending(StoryIssuesOf(issues[created[k]].epic)))]]

\* a client that is not connected creates nothing and returns nothing
NotConnectedNothing ==
    ~jira =>
        /\ issues = <<>> /\ links = {} /\ results = <<>>
        /\ client_pc \in {"none", "begin", "returned"}

\* C18 as stated: a story is created only after its own epic was, and is
\* linked to that epic's key; a failed epic has no story and no entry and
\* the next epics are still processed; a failed story is left out and the
\* rest goes on; a client that is not connected returns an empty result
\* and creates nothing.
C18_StoriesLinkedToOwnEpic ==
    /\ StoryAfterOwnEpic
    /\ EveryStoryLinked
    /\ FailedEpicLeavesNothing
    /\ AllProcessed
    /\ NotConnectedNothing

\* C18 as amended: the same, except that a story is created with the key
\* of its own epic and every link made is to that key, while a story
\* whose link fails stays created, unlinked, and is listed under the epic.
C18_StoriesGivenOwnEpicKey ==
    /\ StoryAfterOwnEpic
    /\ LinksToOwnEpicOnly
    /\ FailedEpicLeavesNothing
    /\ AllProcessed
    /\ NotConnectedNothing

\* the first epic failed and none of its stories was created; the second
\* was created, its first story failed, its second was created and listed
\* although its link failed
C18_Witness ==
    /\ client_pc = "returned"
    /\ jira
    /\ Len(epics_arg) = 2
    /\ Len(epics_arg[1].stories) >= 1
    /\ issues = << [type |-> "Epic", key |-> 1, epic |-> 2, story |-> 0, parent |-> <<>>],
                   [type |-> "Story", key |-> 2, epic |-> 2, story |-> 2, parent |-> <<1>>] >>
    /\ links = {}
    /\ results = << [key |-> 1, stories |-> <<2>>] >>

----------------------------------------------------------------------------
(* C19 *)

\* C19: every story title that is returned has at most 60 characters,
\* whichever branch of _generate_title made it: the action after
\* 'I want to ', the description when that action is blank, or the
\* description when there is no phrase.
C19_TitleAtMost60 ==
    Returned =>
        \A st \in AllStories(result[1]) : Len(st.title) <= 60

\* a returned story with a blank action after 'I want to ' whose
\* description is longer than 60 characters
C19_Witness ==
    /\ Returned
    /\ \E st \in AllStories(result[1]) :
           /\ HasPhrase(st.description)
           /\ Action(st.description) = <<>>
           /\ Len(st.description) > 60
           /\ st.title = SubSeq(st.description, 1, 57) \o <<".", ".", ".">>

====
